---- MODULE Spec2Model ----
(***************************************************************************)
(* One invocation of the image-processing command line tool:               *)
(*   main.py  ->  blur.blur_image | filter.apply_filter |                  *)
(*                stylization.apply_stylization                            *)
(* Each handler is  cv2.imread -> transform -> cv2.imwrite -> print,       *)
(* wrapped in a try/except.  An image is a record                          *)
(*   [shape |-> <<h, w, c>> or <<h, w>>, data |-> rows of pixels]          *)
(* with 1-based rows/columns/channels.  The output of a library primitive  *)
(* whose numerics are the library's (blur, sepia, grayscale, LUT, sketch,  *)
(* stylization) keeps its shape and carries no samples (data = <<>>).      *)
(***************************************************************************)
EXTENDS Integers, Sequences, FiniteSets, TLC

VARIABLES
    entry,      \* "cli": through main() and argparse; "call": dispatcher called with a Namespace
    args,       \* the argparse.Namespace
    dest,       \* what the destination path is to cv2.imwrite
    pc,         \* position of the invocation
    handler,    \* the function whose try block is running
    img,        \* result of cv2.imread (NoImage for None / not yet loaded)
    result,     \* the transformed array handed to cv2.imwrite
    outFile,    \* the image written at output_path (NoImage: nothing written)
    stdout,     \* messages printed, in order
    loads,      \* number of cv2.imread calls
    transforms, \* number of transform primitives invoked
    saves       \* number of cv2.imwrite calls

vars == <<entry, args, dest, pc, handler, img, result, outFile, stdout,
          loads, transforms, saves>>

(*************************** bounds of the model ***************************)
MaxDim == 4

(****************************** basic values *******************************)
None == "None"       \* Python's None for an option that was not given

NoImage == [shape |-> <<>>, data |-> <<>>]

PixelSamples == { <<0, 0, 0>>, <<255, 255, 255>>, <<10, 20, 30>>, <<200, 100, 0>> }

Patterns == {"vsplit", "hsplit"}

\* an h x w x 3 image holding pixel p in its first half and q in the rest
MakeImage(h, w, p, q, pat) ==
    [shape |-> <<h, w, 3>>,
     data  |-> [r \in 1..h |-> [c \in 1..w |->
                  IF (pat = "vsplit" /\ 2 * c <= w) \/ (pat = "hsplit" /\ 2 * r <= h)
                  THEN p ELSE q]]]

\* what cv2.imread (default flag IMREAD_COLOR) can return for a decodable
\* file: always three channels, unsigned 8-bit
PatternImages ==
    { MakeImage(h, w, p, q, pat) :
        h \in 1..MaxDim, w \in 1..MaxDim, p \in PixelSamples, q \in PixelSamples,
        pat \in Patterns }

\* one-pixel images that run every sample value 0..255 through a channel
SampleImages ==
    { MakeImage(1, 1, <<v, 255 - v, (7 * v) % 256>>, <<v, 255 - v, (7 * v) % 256>>, "vsplit") :
        v \in 0..255 }

Images == PatternImages \cup SampleImages

Height(im) == im.shape[1]
Width(im)  == im.shape[2]

Opaque(shape) == [shape |-> shape, data |-> <<>>]

RECURSIVE SumFn(_, _)
SumFn(f, n) == IF n = 0 THEN 0 ELSE f[n] + SumFn(f, n - 1)


(***************************** filter.py **********************************)
\* variant: the subtraction done from 256, wrapping in 8 bits
NegativeSample_wrap(v) == (256 - v) % 256

\* numpy: 255 - img on an unsigned 8-bit array stays unsigned 8-bit
NegativeSample(v) == (255 - v) % 256

NegativeImage(im) ==
    [shape |-> im.shape,
     data  |-> [r \in 1..Height(im) |-> [c \in 1..Width(im) |->
                  [k \in 1..3 |-> NegativeSample(im.data[r][c][k])]]]]

\* the keys of color_map and the 3x3 matrix of each (rows = output channel,
\* columns = input channel, channel order B, G, R)
ColorNames == {"red", "green", "blue", "yellow", "cyan", "magenta"}

color_map ==
    [red     |-> << <<0, 0, 0>>, <<0, 0, 0>>, <<0, 0, 1>> >>,
     green   |-> << <<0, 0, 0>>, <<0, 1, 0>>, <<0, 0, 0>> >>,
     blue    |-> << <<0, 0, 1>>, <<0, 0, 0>>, <<0, 0, 0>> >>,
     yellow  |-> << <<0, 0, 0>>, <<0, 1, 0>>, <<0, 0, 1>> >>,
     cyan    |-> << <<0, 0, 1>>, <<0, 1, 0>>, <<0, 0, 0>> >>,
     magenta |-> << <<0, 0, 1>>, <<0, 0, 0>>, <<0, 0, 1>> >>]

\* str.lower() on the option strings the model draws
LowerTable == [RED |-> "red", Cyan |-> "cyan", WARM |-> "warm", Cold |-> "cold"]

Lower(s) == IF s \in DOMAIN LowerTable THEN LowerTable[s] ELSE s

\* Python truthiness of an option value: None and "" are falsy
Falsy(s) == s = None \/ s = ""

\* cv2.transform: every pixel is multiplied by the matrix m, dst = m . src
TransformPixel(m, px) ==
    [i \in 1..Len(m) |-> SumFn([j \in 1..Len(px) |-> m[i][j] * px[j]], Len(px))]

TransformImage(im, m) ==
    [shape |-> im.shape,
     data  |-> [r \in 1..Height(im) |-> [c \in 1..Width(im) |->
                  TransformPixel(m, im.data[r][c])]]]

(*************************** stylization.py *******************************)
kernel8 == << <<-2, -1, 0>>, <<-1, 1, 1>>, <<0, 1, 2>> >>

kernel6 == << <<-1, 0, 1>>, <<-2, 0, 2>>, <<-1, 0, 1>> >>

\* variant: the kernel handed over as written
Flip_none(k) == k

\* kernel[::-1, ::-1]
Flip(k) ==
    [a \in 1..Len(k) |-> [b \in 1..Len(k[1]) |-> k[Len(k) + 1 - a][Len(k[1]) + 1 - b]]]

\* ndarray.clip(0, 255).astype(np.uint8)
ClipU8(x) == (IF x < 0 THEN 0 ELSE IF x > 255 THEN 255 ELSE x) % 256

Rows(m) == Len(m)
Cols(m) == IF Len(m) = 0 THEN 0 ELSE Len(m[1])

\* scipy.signal.convolve2d in 'valid' mode needs one operand at least as
\* large as the other in every dimension, else it raises ValueError
ValidRaises(in1, in2) ==
    /\ ~(Rows(in1) >= Rows(in2) /\ Cols(in1) >= Cols(in2))
    /\ ~(Rows(in2) >= Rows(in1) /\ Cols(in2) >= Cols(in1))

\* 'valid' mode: the operands are swapped when in1 is the smaller one
ConvolveValid(in1, in2) ==
    LET swap == ~(Rows(in1) >= Rows(in2) /\ Cols(in1) >= Cols(in2))
        A  == IF swap THEN in2 ELSE in1
        B  == IF swap THEN in1 ELSE in2
        hb == Rows(B)
        wb == Cols(B)
    IN  [i \in 1..(Rows(A) - hb + 1) |-> [j \in 1..(Cols(A) - wb + 1) |->
           SumFn([n \in 1..(hb * wb) |->
                    LET a == ((n - 1) \div wb) + 1
                        b == ((n - 1) % wb) + 1
                    IN  B[a][b] * A[i + hb - a][j + wb - b]],
                 hb * wb)]]

\* 'full' mode (the default), zero fill outside in1
ConvolveFull(in1, in2) ==
    LET h2 == Rows(in2)
        w2 == Cols(in2)
    IN  [i \in 1..(Rows(in1) + h2 - 1) |-> [j \in 1..(Cols(in1) + w2 - 1) |->
           SumFn([n \in 1..(h2 * w2) |->
                    LET a == ((n - 1) \div w2) + 1
                        b == ((n - 1) % w2) + 1
                        r == i - a + 1
                        c == j - b + 1
                    IN  IF r \in 1..Rows(in1) /\ c \in 1..Cols(in1)
                        THEN in2[a][b] * in1[r][c] ELSE 0],
                 h2 * w2)]]

\* variant: the mode argument is dropped, so the default applies
convolve2d_full(in1, in2, mode) == ConvolveFull(in1, in2)

convolve2d(in1, in2, mode) ==
    IF mode = "valid" THEN ConvolveValid(in1, in2) ELSE ConvolveFull(in1, in2)

\* image[:, :, k]
Plane(im, k) == [r \in 1..Height(im) |-> [c \in 1..Width(im) |-> im.data[r][c][k]]]

\* np.stack([red, green, blue], axis=2) of three 'valid' convolutions
rgb_convolve2d(im, kernel) ==
    LET ch == [k \in 1..3 |-> convolve2d(Plane(im, k), kernel, "valid")]
    IN  [shape |-> <<Rows(ch[1]), Cols(ch[1]), 3>>,
         data  |-> [i \in 1..Rows(ch[1]) |-> [j \in 1..Cols(ch[1]) |->
                      [k \in 1..3 |-> ch[k][i][j]]]]]

\* .clip(0, 255).astype(np.uint8) on a 3-axis or a 2-axis array
ClipImage(im) ==
    [shape |-> im.shape,
     data  |-> [i \in 1..Len(im.data) |-> [j \in 1..Len(im.data[i]) |->
                  IF Len(im.shape) = 3
                  THEN [k \in 1..Len(im.data[i][j]) |-> ClipU8(im.data[i][j][k])]
                  ELSE ClipU8(im.data[i][j])]]]


(************************* messages on stdout *****************************)
LoadErrorText     == "Error: Could not load image from <input>. Check the path and file format."
UnknownBlurText   == "Unknown blur type. Valid types: gaussian, median, box, bilateral."
ColorMissingText  == "Error: --color_name must be specified. Available colors: red, green, blue, yellow, cyan, magenta."
UnknownColorText  == "Error: Unknown color. Available colors: red, green, blue, yellow, cyan, magenta"
TempMissingText   == "Error: --temperature_type must be specified. Available temperature_type: cold, warm."
UnknownTempText   == "Error: Unknown temperature type. Valid options: warm, cold."
UnsupportedText   == "Unsupported format!"
UnknownFilterText == "Unknown filter type"
UnknownStyleText  == "Unknown stylization type"
SavedText         == "applied successfully and saved to <output>"
LibraryErrorText  == "cv2.error"
ValidModeText     == "For 'valid' mode, one must be at least as large as the other in every dimension"

GenericPrefix == "An error occurred: "

Msg(prefix, text) == [prefix |-> prefix, text |-> text]

(*************************** argument parsing *****************************)
BlurChoices   == {"gaussian", "median", "box", "bilateral"}
FilterChoices == {"sepia", "negative", "color", "temperature", "grayscale"}
StyleChoices  == {"sketch", "contouring", "emboss", "sobel"}
TempChoices   == {"warm", "cold"}

\* option values the model draws: the choices, a mode that is none of them,
\* spellings str.lower() maps onto a choice, the empty string, not given
Radii        == {0, 4, 5}
Sigmas       == {0, 2}
ColorOptions == ColorNames \cup {None, "", "RED", "Cyan", "purple"}
TempOptions  == TempChoices \cup {None, "", "WARM", "hot"}

Namespace(command, mode, radius, sigma_x, color_name, temperature_type) ==
    [command |-> command, mode |-> mode, radius |-> radius, sigma_x |-> sigma_x,
     color_name |-> color_name, temperature_type |-> temperature_type]

ArgSets ==
    { Namespace("blur", m, r, sx, None, None) :
        m \in BlurChoices \cup {"motion"}, r \in Radii, sx \in Sigmas }
    \cup { Namespace("filter", m, 5, 0, None, None) :
        m \in {"sepia", "negative", "grayscale", "vintage"} }
    \cup { Namespace("filter", "color", 5, 0, cn, None) : cn \in ColorOptions }
    \cup { Namespace("filter", "temperature", 5, 0, None, tt) : tt \in TempOptions }
    \cup { Namespace("stylization", m, 5, 0, None, None) :
        m \in StyleChoices \cup {"cartoon"} }

\* parser.parse_args(): every option with choices=... must be one of them
ArgparseAccepts(a) ==
    /\ a.command = "blur" => a.mode \in BlurChoices
    /\ a.command = "filter" => a.mode \in FilterChoices
    /\ a.command = "stylization" => a.mode \in StyleChoices
    /\ a.color_name \in ColorNames \cup {None}
    /\ a.temperature_type \in TempChoices \cup {None}

(***************************** dispatchers ********************************)
filter_functions ==
    [sepia |-> "apply_sepia", negative |-> "apply_negative", color |-> "apply_color",
     temperature |-> "apply_temperature", grayscale |-> "apply_grayscale"]

stylization_functions ==
    [sketch |-> "apply_pencil_sketch", contouring |-> "apply_contouring",
     emboss |-> "apply_emboss", sobel |-> "apply_sobel"]

FilterHandlers == {filter_functions[k] : k \in DOMAIN filter_functions}
StyleHandlers  == {stylization_functions[k] : k \in DOMAIN stylization_functions}

(************************** exception handling ****************************)
\* variant: the stylization handlers catch the load error only
ExceptClauses_narrow(h) ==
    IF h = "blur_image" THEN <<"FileNotFoundError", "ValueError", "Exception">>
    ELSE IF h \in FilterHandlers THEN <<"FileNotFoundError", "Exception">>
    ELSE <<"FileNotFoundError">>

\* the except clauses of each handler's try block, in order
ExceptClauses(h) ==
    IF h = "blur_image" THEN <<"FileNotFoundError", "ValueError", "Exception">>
    ELSE IF h \in FilterHandlers THEN <<"FileNotFoundError", "Exception">>
    ELSE <<"Exception">>

\* isinstance(exception of class exc, clause)
Matches(exc, clause) == clause = "Exception" \/ clause = exc

\* the first clause that catches exc, "" when none does
CatchingClause(h, exc) ==
    LET cl == ExceptClauses(h)
        hits == {i \in 1..Len(cl) : Matches(exc, cl[i])}
    IN  IF hits = {} THEN ""
        ELSE cl[CHOOSE i \in hits : \A j \in hits : i <= j]

\* what the clause prints: print(e), or print(f"An error occurred: {e}")
Printed(clause, text) ==
    IF clause = "Exception" THEN Msg(GenericPrefix, text) ELSE Msg("", text)

\* an exception raised inside the try block of the running handler
Raise(exc, text) ==
    LET clause == CatchingClause(handler, exc)
    IN  IF clause = ""
        THEN pc' = "raised" /\ stdout' = stdout
        ELSE pc' = "done" /\ stdout' = Append(stdout, Printed(clause, text))


(************************ the transform of a handler **********************)
\* the outcome of the statements between cv2.imread and cv2.imwrite:
\*   "value"  the array to save;  "raise"  an exception;  "return"  a
\*   printed message followed by return.  called: a transform primitive ran.
Value(im)        == [kind |-> "value", exc |-> "", text |-> "", value |-> im, called |-> TRUE]
Raises(exc, txt) == [kind |-> "raise", exc |-> exc, text |-> txt, value |-> NoImage, called |-> TRUE]
\* variant: the return after the message is missing, the handler goes on
Returns_fallthrough(txt) ==
    [kind |-> "value", exc |-> "", text |-> txt, value |-> NoImage, called |-> FALSE]

Returns(txt)     == [kind |-> "return", exc |-> "", text |-> txt, value |-> NoImage, called |-> FALSE]

\* the kernel-size preconditions of the cv2 blur primitives
BlurRaises(blur_type, radius, sigma_x) ==
    \/ blur_type = "gaussian" /\ ~(radius > 0 /\ radius % 2 = 1) /\ ~(radius <= 0 /\ sigma_x > 0)
    \/ blur_type = "median" /\ radius % 2 # 1
    \/ blur_type = "box" /\ radius <= 0

blur_image(a, im) ==
    IF a.mode \notin BlurChoices THEN
        [kind |-> "raise", exc |-> "ValueError", text |-> UnknownBlurText,
         value |-> NoImage, called |-> FALSE]
    ELSE IF BlurRaises(a.mode, a.radius, a.sigma_x) THEN Raises("cv2.error", LibraryErrorText)
    ELSE Value(Opaque(im.shape))

\* cv2.cvtColor(img, cv2.COLOR_BGR2GRAY): a 2-axis array, one channel
apply_grayscale(a, im) == Value(Opaque(<<Height(im), Width(im)>>))

apply_sepia(a, im) == Value(Opaque(im.shape))

apply_negative(a, im) == Value(NegativeImage(im))

\* variant: an unknown name falls back to the first matrix of the table
apply_color_default(a, im) ==
    IF Falsy(a.color_name) THEN Value(TransformImage(im, color_map["red"]))
    ELSE IF Lower(a.color_name) \notin DOMAIN color_map
         THEN Value(TransformImage(im, color_map["red"]))
    ELSE Value(TransformImage(im, color_map[Lower(a.color_name)]))

apply_color(a, im) ==
    IF Falsy(a.color_name) THEN Returns(ColorMissingText)
    ELSE IF Lower(a.color_name) \notin DOMAIN color_map THEN Returns(UnknownColorText)
    ELSE Value(TransformImage(im, color_map[Lower(a.color_name)]))

\* the tables and the channel split come first, then the option is checked
apply_temperature(a, im) ==
    IF Falsy(a.temperature_type) THEN Returns(TempMissingText)
    ELSE IF Lower(a.temperature_type) \in {"warm", "cold"} THEN Value(Opaque(im.shape))
    ELSE Returns(UnknownTempText)

\* cv2.pencilSketch: dst_gray is saved
apply_pencil_sketch(a, im) == Value(Opaque(<<Height(im), Width(im)>>))

apply_contouring(a, im) == Value(Opaque(im.shape))

apply_emboss(a, im) ==
    IF ValidRaises(Plane(im, 1), Flip(kernel8)) THEN Raises("ValueError", ValidModeText)
    ELSE Value(ClipImage(rgb_convolve2d(im, Flip(kernel8))))

apply_sobel(a, im) ==
    IF Len(im.shape) = 3 /\ im.shape[3] = 3 THEN
        IF ValidRaises(Plane(im, 1), Flip(kernel6)) THEN Raises("ValueError", ValidModeText)
        ELSE Value(ClipImage(rgb_convolve2d(im, Flip(kernel6))))
    ELSE IF Len(im.shape) = 2 THEN
        LET out == convolve2d(im.data, Flip(kernel6), "full")
        IN  Value(ClipImage([shape |-> <<Rows(out), Cols(out)>>, data |-> out]))
    ELSE Returns(UnsupportedText)

Outcome(h, a, im) ==
    CASE h = "blur_image"          -> blur_image(a, im)
      [] h = "apply_grayscale"     -> apply_grayscale(a, im)
      [] h = "apply_sepia"         -> apply_sepia(a, im)
      [] h = "apply_negative"      -> apply_negative(a, im)
      [] h = "apply_color"         -> apply_color(a, im)
      [] h = "apply_temperature"   -> apply_temperature(a, im)
      [] h = "apply_pencil_sketch" -> apply_pencil_sketch(a, im)
      [] h = "apply_contouring"    -> apply_contouring(a, im)
      [] h = "apply_emboss"        -> apply_emboss(a, im)
      [] h = "apply_sobel"         -> apply_sobel(a, im)

\* cv2.imwrite stores unsigned 8-bit samples: an array of another depth is
\* converted with saturation first
EncodeU8(im) == IF im.data = <<>> THEN im ELSE ClipImage(im)

(******************************* the run **********************************)
Destinations == {"writable", "unwritable", "no_encoder"}

Init ==
    /\ entry \in {"cli", "call"}
    /\ args \in ArgSets
    /\ dest \in Destinations
    /\ pc = "start"
    /\ handler = ""
    /\ img = NoImage
    /\ result = NoImage
    /\ outFile = NoImage
    /\ stdout = <<>>
    /\ loads = 0
    /\ transforms = 0
    /\ saves = 0

\* main(): parse_args() leaves with status 2 on an option outside its choices
Main ==
    /\ pc = "start"
    /\ entry = "cli"
    /\ pc' = IF ArgparseAccepts(args) THEN "dispatch" ELSE "usage"
    /\ UNCHANGED <<entry, args, dest, handler, img, result, outFile, stdout,
                   loads, transforms, saves>>

\* blur_image / apply_filter / apply_stylization called with a Namespace
Call ==
    /\ pc = "start"
    /\ entry = "call"
    /\ pc' = "dispatch"
    /\ UNCHANGED <<entry, args, dest, handler, img, result, outFile, stdout,
                   loads, transforms, saves>>

\* the dispatcher picks the handler from its table
Dispatch ==
    /\ pc = "dispatch"
    /\ LET table == IF args.command = "filter" THEN filter_functions
                    ELSE stylization_functions
       IN  IF args.command = "blur" THEN
               /\ handler' = "blur_image"
               /\ pc' = "load"
               /\ stdout' = stdout
           ELSE IF args.mode \in DOMAIN table THEN
               /\ handler' = table[args.mode]
               /\ pc' = "load"
               /\ stdout' = stdout
           ELSE
               /\ handler' = IF args.command = "filter" THEN "apply_filter"
                             ELSE "apply_stylization"
               /\ pc' = "done"
               /\ stdout' = Append(stdout,
                     Msg("", IF args.command = "filter" THEN UnknownFilterText
                             ELSE UnknownStyleText))
    /\ UNCHANGED <<entry, args, dest, img, result, outFile, loads, transforms, saves>>

\* img = cv2.imread(input_path); None raises FileNotFoundError
Load ==
    /\ pc = "load"
    /\ loads' = loads + 1
    /\ \E file \in Images \cup {NoImage} :
          /\ img' = file
          /\ IF file = NoImage THEN Raise("FileNotFoundError", LoadErrorText)
             ELSE pc' = "transform" /\ stdout' = stdout
    /\ UNCHANGED <<entry, args, dest, handler, result, outFile, transforms, saves>>

Transform ==
    /\ pc = "transform"
    /\ LET o == Outcome(handler, args, img)
       IN  /\ transforms' = IF o.called THEN transforms + 1 ELSE transforms
           /\ result' = o.value
           /\ CASE o.kind = "value"  -> pc' = "save" /\ stdout' = stdout
                [] o.kind = "raise"  -> Raise(o.exc, o.text)
                [] o.kind = "return" -> pc' = "done" /\ stdout' = Append(stdout, Msg("", o.text))
    /\ UNCHANGED <<entry, args, dest, handler, img, outFile, loads, saves>>

\* cv2.imwrite(output_path, result): returns False when the file cannot be
\* opened for writing, raises cv2.error when no encoder fits the extension;
\* the return value is not looked at
Save ==
    /\ pc = "save"
    /\ saves' = saves + 1
    /\ IF dest = "no_encoder"
       THEN Raise("cv2.error", LibraryErrorText) /\ outFile' = outFile
       ELSE /\ outFile' = IF dest = "writable" THEN EncodeU8(result) ELSE outFile
            /\ pc' = "report"
            /\ stdout' = stdout
    /\ UNCHANGED <<entry, args, dest, handler, img, result, loads, transforms>>

\* print(f"... applied and saved to {output_path}")
Report ==
    /\ pc = "report"
    /\ stdout' = Append(stdout, Msg("", SavedText))
    /\ pc' = "done"
    /\ UNCHANGED <<entry, args, dest, handler, img, result, outFile, loads,
                   transforms, saves>>

Next == Main \/ Call \/ Dispatch \/ Load \/ Transform \/ Save \/ Report

Spec == Init /\ [][Next]_vars


(************** apply_sobel on arrays of every shape it tests *************)
\* the arrays apply_sobel's shape test tells apart: 2 axes, and 3 axes with
\* 1, 3 or 4 channels
Reshape(im, kind) ==
    CASE kind = "hw"  -> [shape |-> <<Height(im), Width(im)>>, data |-> Plane(im, 1)]
      [] kind = "hw1" -> [shape |-> <<Height(im), Width(im), 1>>,
                          data  |-> [r \in 1..Height(im) |-> [c \in 1..Width(im) |->
                                       <<im.data[r][c][1]>>]]]
      [] kind = "hw3" -> im
      [] kind = "hw4" -> [shape |-> <<Height(im), Width(im), 4>>,
                          data  |-> [r \in 1..Height(im) |-> [c \in 1..Width(im) |->
                                       Append(im.data[r][c], 255)]]]

ShapeKinds == {"hw", "hw1", "hw3", "hw4"}

InitShape ==
    /\ entry = "call"
    /\ args = Namespace("stylization", "sobel", 5, 0, None, None)
    /\ dest \in Destinations
    /\ pc = "transform"
    /\ handler = "apply_sobel"
    /\ img \in { Reshape(im, kind) : im \in PatternImages, kind \in ShapeKinds }
    /\ result = NoImage
    /\ outFile = NoImage
    /\ stdout = <<>>
    /\ loads = 1
    /\ transforms = 0
    /\ saves = 0

NextShape == Transform \/ Save \/ Report

SpecShape == InitShape /\ [][NextShape]_vars


(******************************* properties *******************************)
Written == outFile # NoImage

Succeeded == \E i \in 1..Len(stdout) : stdout[i] = Msg("", SavedText)

ConvHandlers == {"apply_emboss", "apply_sobel"}

SameShapeHandlers == {"apply_sepia", "apply_negative", "apply_color", "apply_temperature"}

\* a loaded image went through one of the filters of C1 with a valid option
\* and a destination that can be written
ShapeCase ==
    /\ pc = "done"
    /\ img # NoImage
    /\ dest = "writable"
    /\ handler \in SameShapeHandlers \cup ConvHandlers \cup {"apply_grayscale"}
    /\ handler = "apply_color" => args.color_name \in ColorNames
    /\ handler = "apply_temperature" => args.temperature_type \in TempChoices

ClaimedShape ==
    IF handler \in SameShapeHandlers THEN <<Height(img), Width(img), 3>>
    ELSE IF handler = "apply_grayscale" THEN <<Height(img), Width(img)>>
    ELSE <<Height(img) - 2, Width(img) - 2, 3>>

AtLeast3x3 == Height(img) >= 3 /\ Width(img) >= 3

\* C1 as stated: for every loaded image sepia, negative, color and
\* temperature save H x W x C, grayscale saves H x W with one channel, emboss
\* and sobel save (H-2) x (W-2) with the channel count kept.
C1_Original == ShapeCase => (Written /\ outFile.shape = ClaimedShape)

\* C1 amended: the same, with emboss and sobel restricted to images of at
\* least 3 x 3 pixels.
C1_Shapes ==
    (ShapeCase /\ (handler \in ConvHandlers => AtLeast3x3))
        => (Written /\ outFile.shape = ClaimedShape)

C1_Witness ==
    /\ ShapeCase
    /\ handler = "apply_emboss"
    /\ img.shape = <<4, 3, 3>>
    /\ outFile.shape = <<2, 1, 3>>

\* C2: the color filter writes, in every channel of every pixel, either 0 or
\* the value of the same channel of the input pixel.
C2_SameChannelOrZero ==
    (handler = "apply_color" /\ Written) =>
        \A r \in 1..Height(img) : \A c \in 1..Width(img) : \A k \in 1..3 :
            outFile.data[r][c][k] \in {0, img.data[r][c][k]}

\* C3: the negative filter maps every sample v to 255 - v inside 0..255, and
\* the negative of the saved image is the input image again.
C3_Negative ==
    (handler = "apply_negative" /\ Written) =>
        /\ \A r \in 1..Height(img) : \A c \in 1..Width(img) : \A k \in 1..3 :
              /\ outFile.data[r][c][k] = 255 - img.data[r][c][k]
              /\ outFile.data[r][c][k] \in 0..255
        /\ outFile.shape = img.shape
        /\ NegativeImage(outFile) = img

C3_Witness ==
    /\ handler = "apply_negative"
    /\ Written
    /\ img.data[1][1] = <<0, 255, 0>>
    /\ outFile.data[1][1] = <<255, 0, 255>>

\* C4: in every command and mode a failed load prints the path-specific load
\* message, not the generic "An error occurred" report, runs no transform and
\* writes nothing.
C4_LoadErrorDistinct ==
    (pc = "done" /\ loads = 1 /\ img = NoImage) =>
        /\ stdout = << Msg("", LoadErrorText) >>
        /\ transforms = 0
        /\ saves = 0
        /\ ~Written

\* C5: the success message is printed only if the output image was written.
C5_SuccessOnlyIfWritten == Succeeded => Written

BadColor == Falsy(args.color_name) \/ Lower(args.color_name) \notin ColorNames

BadTemperature ==
    Falsy(args.temperature_type) \/ Lower(args.temperature_type) \notin TempChoices

BadOptionCase ==
    /\ img # NoImage
    /\ \/ handler = "apply_color" /\ BadColor
       \/ handler = "apply_temperature" /\ BadTemperature

\* C6: with a loaded image, the color filter without a recognized color name
\* and the temperature filter without a recognized temperature type print
\* one plain error message, write no file, raise nothing and return.
C6_BadOption ==
    BadOptionCase =>
        /\ pc \in {"transform", "done"}
        /\ saves = 0
        /\ ~Written
        /\ pc = "done" =>
              /\ Len(stdout) = 1
              /\ stdout[1].prefix = ""
              /\ handler = "apply_color" =>
                    stdout[1].text \in {ColorMissingText, UnknownColorText}
              /\ handler = "apply_temperature" =>
                    stdout[1].text \in {TempMissingText, UnknownTempText}

C6_Witness ==
    /\ BadOptionCase
    /\ pc = "done"
    /\ handler = "apply_color"
    /\ args.color_name = "purple"
    /\ stdout = << Msg("", UnknownColorText) >>

\* C7 as stated: every error is reported on standard output, none leaves a
\* dispatcher, and every invocation of main terminates normally.
C7_Original ==
    /\ pc \notin {"raised", "usage"}
    /\ pc = "done" => Len(stdout) = 1

\* C7 amended: every error met after parse_args accepted the command line is
\* reported on standard output and none leaves a dispatcher; an invocation
\* ends otherwise only in parse_args, which leaves with status 2 before any
\* dispatcher runs when an option is outside its choices.
C7_Caught ==
    /\ pc # "raised"
    /\ pc = "done" => Len(stdout) = 1
    /\ pc = "usage" =>
          /\ entry = "cli"
          /\ ~ArgparseAccepts(args)
          /\ handler = ""
          /\ loads = 0
          /\ stdout = <<>>

C7_Witness ==
    /\ pc = "done"
    /\ handler = "apply_emboss"
    /\ img.shape = <<2, 4, 3>>
    /\ stdout = << Msg(GenericPrefix, ValidModeText) >>

\* C8: at most one load, one transform and one save; no transform before a
\* successful load, no save before a completed transform, nothing written
\* when the load or the transform failed; a successful run did one of each.
C8_Order ==
    /\ loads <= 1 /\ transforms <= 1 /\ saves <= 1
    /\ transforms >= 1 => (loads = 1 /\ img # NoImage)
    /\ saves >= 1 => (transforms = 1 /\ result # NoImage)
    /\ (img = NoImage \/ result = NoImage) => ~Written
    /\ Succeeded => (loads = 1 /\ transforms = 1 /\ saves = 1)

C8_Witness ==
    /\ pc = "done"
    /\ Succeeded
    /\ Written
    /\ loads = 1 /\ transforms = 1 /\ saves = 1
    /\ handler = "apply_temperature"

\* the 3 x 3 window of channel k whose top-left corner is (i, j), weighted by w
WindowSum(w, i, j, k) ==
    SumFn([n \in 1..9 |->
             LET u == ((n - 1) \div 3) + 1
                 v == ((n - 1) % 3) + 1
             IN  w[u][v] * img.data[i + u - 1][j + v - 1][k]], 9)

Clamp(x) == IF x < 0 THEN 0 ELSE IF x > 255 THEN 255 ELSE x

Rot180(w) == [u \in 1..3 |-> [v \in 1..3 |-> w[4 - u][4 - v]]]

FixedKernel ==
    IF handler = "apply_emboss"
    THEN << <<-2, -1, 0>>, <<-1, 1, 1>>, <<0, 1, 2>> >>
    ELSE << <<-1, 0, 1>>, <<-2, 0, 2>>, <<-1, 0, 1>> >>

ConvCase == handler \in ConvHandlers /\ Written /\ AtLeast3x3

\* C9 as stated: every output sample of emboss and sobel is the clamped sum
\* of the 3 x 3 input window weighted by the 180-degree-rotated kernel.
C9_Original ==
    ConvCase =>
        \A i \in 1..(Height(img) - 2) : \A j \in 1..(Width(img) - 2) : \A k \in 1..3 :
            outFile.data[i][j][k] = Clamp(WindowSum(Rot180(FixedKernel), i, j, k))

\* C9 amended: for images of at least 3 x 3, every output sample of emboss
\* and sobel is the sum of the 3 x 3 input window weighted by the kernel as
\* written (the convolution with the rotated kernel), computed in signed
\* integers and clamped to 0..255, each channel on its own.
C9_WindowWeights ==
    ConvCase =>
        \A i \in 1..(Height(img) - 2) : \A j \in 1..(Width(img) - 2) : \A k \in 1..3 :
            outFile.data[i][j][k] = Clamp(WindowSum(FixedKernel, i, j, k))

C9_Witness ==
    /\ ConvCase
    /\ handler = "apply_sobel"
    /\ \E j \in 1..(Width(img) - 2) :
          /\ WindowSum(FixedKernel, 1, j, 1) > 255
          /\ outFile.data[1][j][1] = 255
    /\ \E j \in 1..(Width(img) - 2) :
          /\ WindowSum(FixedKernel, 1, j, 3) < 0
          /\ outFile.data[1][j][3] = 0

====
